---- MODULE Spec2Model ----
(***************************************************************************)
(* Model of packages/protobuf/src/write.ts: the emitter that renders a     *)
(* ProtoFile AST to text.                                                  *)
(*                                                                         *)
(* A string is a sequence of tokens.  Every space is the token " ", every  *)
(* line break the token "\n"; a name, a keyword, a numeral or a            *)
(* punctuation mark is one token.  A line is a string without "\n"; the    *)
(* empty string is <<>>.                                                   *)
(*                                                                         *)
(* A generator function's result is the record                             *)
(*   [iterable |-> TRUE, threw |-> did it throw, lines |-> yielded so far] *)
(* and a plain string handed to flatMap is                                 *)
(*   [iterable |-> FALSE, value |-> the string].                           *)
(***************************************************************************)
EXTENDS Integers, Sequences, FiniteSets, TLC

VARIABLES arg, ret, called

vars == <<arg, ret, called>>

(***************************************************************************)
(* Bounds of the inputs.                                                   *)
(***************************************************************************)
MaxImports == 2
MaxOptions == 2
MaxDecls == 2
MaxChildren == 2
MaxReservations == 3
MaxVariants == 3
MaxDepth == 2

SeqsUpTo(S, n) == UNION {[1..k -> S] : k \in 0..n}

(***************************************************************************)
(* Built-ins of the language.                                              *)
(***************************************************************************)
\* the values a for-of loop over arr visits
Items(arr) == {arr[i] : i \in 1..Len(arr)}

\* " ".repeat(n)
repeatSpace(n) == [i \in 1..n |-> " "]

\* Array.prototype.join on an array of strings
join(arr, sep) ==
    LET acc[i \in 0..Len(arr)] ==
            IF i = 0 THEN <<>>
            ELSE IF i = 1 THEN arr[1]
            ELSE acc[i - 1] \o sep \o arr[i]
    IN acc[Len(arr)]

\* a & b for b a power of two
BitAnd(a, b) == ((a \div b) % 2) * b

StringValue(s) == [iterable |-> FALSE, value |-> s]

Generator(ls) == [iterable |-> TRUE, threw |-> FALSE, lines |-> ls]

Thrown == [iterable |-> TRUE, threw |-> TRUE, lines |-> <<>>]

\* the statements `yield* a; yield* b` of a generator body
Then(a, b) ==
    IF a.threw THEN a
    ELSE [iterable |-> TRUE, threw |-> b.threw, lines |-> a.lines \o b.lines]

(***************************************************************************)
(* ast.ts: StreamingMode.                                                  *)
(***************************************************************************)
StreamingModeIn == 2
StreamingModeOut == 1

(***************************************************************************)
(* utils                                                                   *)
(***************************************************************************)
DefaultDepth == 2

indentAll(it, depth) ==
    [it EXCEPT !.lines = [i \in 1..Len(it.lines) |-> repeatSpace(depth) \o it.lines[i]]]

indent(it, depth) ==
    [it EXCEPT !.lines = [i \in 1..Len(it.lines) |->
        IF it.lines[i] # <<>> THEN repeatSpace(depth) \o it.lines[i]
        ELSE it.lines[i]]]

flatMap(it, f) ==
    LET run[i \in 0..Len(it)] ==
            IF i = 0 THEN Generator(<<>>)
            ELSE LET yielded == run[i - 1]
                     result == f[it[i]]
                 IN IF yielded.threw THEN yielded
                    ELSE IF result.iterable
                    THEN Then(yielded, result)
                    ELSE Then(yielded, Generator(<<result.value>>))
    IN run[Len(it)]

collect(it) ==
    IF it.threw THEN [threw |-> TRUE, out |-> <<>>]
    ELSE [threw |-> FALSE, out |-> it.lines]

selectMapPrepends(source, select, delegates) ==
    LET result[i \in 0..Len(source)] ==
            IF i = 0 THEN [k \in DOMAIN delegates |-> <<>>]
            ELSE LET value == source[i]
                     k == select[value]
                 IN [result[i - 1] EXCEPT ![k] = <<delegates[k][value]>> \o @]
    IN result[Len(source)]

selectMap(source, select, delegates) ==
    LET result[i \in 0..Len(source)] ==
            IF i = 0 THEN [k \in DOMAIN delegates |-> <<>>]
            ELSE LET value == source[i]
                     k == select[value]
                 IN [result[i - 1] EXCEPT ![k] = Append(@, delegates[k][value])]
    IN result[Len(source)]

(***************************************************************************)
(* Renderers                                                               *)
(***************************************************************************)
RECURSIVE writeType(_)
writeType(type) ==
    CASE type.t = "map" -> <<"map<", type.k, ",", " ">> \o writeType(type.v) \o <<">">>
      [] type.t = "ref" -> <<type.name>>
      [] type.t = "scalar" -> <<type.name>>

writeField(decl) ==
    LET prefix == IF decl.repeated THEN <<"repeated", " ">> ELSE <<>>
    IN prefix \o writeType(decl.type)
         \o <<" ", decl.name, " ", "=", " ", ToString(decl.index), ";">>

writeMethod(decl) ==
    LET inStream == IF BitAnd(decl.stream, StreamingModeIn) # 0
                    THEN <<"stream", " ">> ELSE <<>>
        outStream == IF BitAnd(decl.stream, StreamingModeOut) # 0
                     THEN <<"stream", " ">> ELSE <<>>
    IN <<"rpc", " ", decl.name, "(">> \o inStream \o writeType(decl.input)
         \o <<")", " ", "returns", " ", "(">> \o outStream \o writeType(decl.returns)
         \o <<")", ";">>

writeEnumAlwaysBlank(decl) ==
    LET head == Generator(<< <<"enum", " ", decl.name, " ", "{">> >>)
        option == << " ", " ", "option", " ", "allow_alias", " ", "=", " ", "true", ";" >>
        alias == IF decl.allowAlias THEN Generator(<<option, <<>> >>) ELSE Generator(<<>>)
        variants == indent(flatMap(decl.variants,
                        [v \in Items(decl.variants) |->
                            StringValue(<<v.name, " ", "=", " ", ToString(v.idx), ";">>)]),
                        DefaultDepth)
    IN Then(head, Then(alias, Then(variants, Generator(<< <<"}">> >>))))

writeEnum(decl) ==
    LET head == Generator(<< <<"enum", " ", decl.name, " ", "{">> >>)
        option == << " ", " ", "option", " ", "allow_alias", " ", "=", " ", "true", ";" >>
        alias == IF decl.allowAlias
                 THEN Generator(IF Len(decl.variants) > 0 THEN <<option, <<>> >>
                                ELSE <<option>>)
                 ELSE Generator(<<>>)
        variants == indent(flatMap(decl.variants,
                        [v \in Items(decl.variants) |->
                            StringValue(<<v.name, " ", "=", " ", ToString(v.idx), ";">>)]),
                        DefaultDepth)
    IN Then(head, Then(alias, Then(variants, Generator(<< <<"}">> >>))))

writeServiceUnclosed(decl) ==
    LET head == <<"service", " ", decl.name, " ", "{">>
        tail == <<"}">>
    IN IF Len(decl.operations) > 0
       THEN Then(Generator(<<head>>),
            Then(indent(flatMap(decl.operations,
                        [m \in Items(decl.operations) |-> StringValue(writeMethod(m))]),
                        DefaultDepth),
                 Generator(<<tail>>)))
       ELSE Generator(<<head>>)

writeService(decl) ==
    LET head == <<"service", " ", decl.name, " ", "{">>
        tail == <<"}">>
    IN IF Len(decl.operations) > 0
       THEN Then(Generator(<<head>>),
            Then(indent(flatMap(decl.operations,
                        [m \in Items(decl.operations) |-> StringValue(writeMethod(m))]),
                        DefaultDepth),
                 Generator(<<tail>>)))
       ELSE Generator(<<head \o tail>>)

writeReservations(decl) ==
    LET source == IF decl.reservations.defined THEN decl.reservations.items ELSE <<>>
        sel == selectMap(source,
                  [v \in Items(source) |-> IF v.k = "number" \/ v.k = "range"
                                           THEN "reservedNumbers" ELSE "reservedNames"],
                  [reservedNumbers |-> [v \in Items(source) |->
                        IF v.k = "range"
                        THEN <<ToString(v.lo), " ", "to", " ", ToString(v.hi)>>
                        ELSE <<ToString(v.n)>>],
                   reservedNames |-> [v \in Items(source) |-> <<"\"", v.s, "\"">>]])
        reservedNumbers == sel["reservedNumbers"]
        reservedNames == sel["reservedNames"]
    IN IF Len(reservedNumbers) + Len(reservedNames) > 0
       THEN Generator(
              (IF Len(reservedNumbers) > 0
               THEN << <<"reserved", " ">> \o join(reservedNumbers, <<",", " ">>) \o <<";">> >>
               ELSE <<>>)
              \o (IF Len(reservedNames) > 0
                  THEN << <<"reserved", " ">> \o join(reservedNames, <<",", " ">>) \o <<";">> >>
                  ELSE <<>>)
              \o << <<>> >>)
       ELSE Generator(<<>>)

RECURSIVE writeDeclaration(_)

writeMessageCollapsesReserved(decl) ==
    LET head == <<"message", " ", decl.name, " ", "{">>
        tail == <<"}">>
    IN IF Len(decl.declarations) > 0
       THEN Then(Generator(<<head>>),
            Then(indent(writeReservations(decl), DefaultDepth),
            Then(indent(flatMap(decl.declarations,
                        [d \in Items(decl.declarations) |-> writeDeclaration(d)]),
                        DefaultDepth),
                 Generator(<<tail>>))))
       ELSE Generator(<<head \o tail>>)

writeMessage(decl) ==
    LET head == <<"message", " ", decl.name, " ", "{">>
        tail == <<"}">>
    IN IF Len(decl.declarations) > 0
          \/ (decl.reservations.defined /\ Len(decl.reservations.items) # 0)
       THEN Then(Generator(<<head>>),
            Then(indent(writeReservations(decl), DefaultDepth),
            Then(indent(flatMap(decl.declarations,
                        [d \in Items(decl.declarations) |-> writeDeclaration(d)]),
                        DefaultDepth),
                 Generator(<<tail>>))))
       ELSE Generator(<<head \o tail>>)

writeOneOfFlat(decl) ==
    Then(Generator(<< <<"oneof", " ", decl.name, " ", "{">> >>),
    Then(flatMap(decl.declarations, [d \in Items(decl.declarations) |-> writeDeclaration(d)]),
         Generator(<< <<"}">> >>)))

writeOneOf(decl) ==
    Then(Generator(<< <<"oneof", " ", decl.name, " ", "{">> >>),
    Then(indent(flatMap(decl.declarations,
                        [d \in Items(decl.declarations) |-> writeDeclaration(d)]),
                        DefaultDepth),
         Generator(<< <<"}">> >>)))

writeDeclarationSkipsUnknown(decl) ==
    CASE decl.kind = "message" -> writeMessage(decl)
      [] decl.kind = "service" -> writeService(decl)
      [] decl.kind = "field" -> Generator(<<writeField(decl)>>)
      [] decl.kind = "oneof" -> writeOneOf(decl)
      [] decl.kind = "enum" -> writeEnum(decl)
      [] decl.kind = "method" -> Generator(<<writeMethod(decl)>>)
      [] OTHER -> Generator(<<>>)

writeDeclaration(decl) ==
    CASE decl.kind = "message" -> writeMessage(decl)
      [] decl.kind = "service" -> writeService(decl)
      [] decl.kind = "field" -> Generator(<<writeField(decl)>>)
      [] decl.kind = "oneof" -> writeOneOf(decl)
      [] decl.kind = "enum" -> writeEnum(decl)
      [] decl.kind = "method" -> Generator(<<writeMethod(decl)>>)
      [] OTHER -> Thrown

PROTO_HEADER ==
    <<"/* Generated by Microsoft TypeSpec */", "\n", "\n",
      "syntax", " ", "=", " ", "\"proto3\"", ";", "\n">>

packageStatement(file) ==
    IF file.package.defined /\ file.package.name # ""
    THEN <<"\n", "package", " ", file.package.name, ";", "\n">>
    ELSE <<>>

importStatementsDeduplicated(file) ==
    LET kept == SelectSeq([i \in 1..Len(file.imports) |-> [at |-> i, path |-> file.imports[i]]],
                          LAMBDA e : \A j \in 1..(e.at - 1) : file.imports[j] # e.path)
    IN join([i \in 1..Len(kept) |-> <<"\n", "import", " ", "\"", kept[i].path, "\"", ";">>], <<>>)
         \o (IF Len(file.imports) > 0 THEN <<"\n">> ELSE <<>>)

importStatements(file) ==
    join([i \in 1..Len(file.imports) |->
            <<"\n", "import", " ", "\"", file.imports[i], "\"", ";">>], <<>>)
      \o (IF Len(file.imports) > 0 THEN <<"\n">> ELSE <<>>)

optionStatements(file) ==
    LET opts == file.options
        value(valueData) ==
            CASE valueData.type = "string" -> <<"\"", valueData.s, "\"">>
              [] valueData.type = "number" -> <<ToString(valueData.n)>>
              [] valueData.type = "boolean" -> <<IF valueData.b THEN "true" ELSE "false">>
    IN join([i \in 1..Len(opts) |->
               <<"\n", "option", " ", "(", opts[i].name, ")", " ", "=", " ">>
                  \o value(opts[i].value)], <<>>)
         \o (IF Len(opts) > 0 THEN <<"\n">> ELSE <<>>)

declarationBlocksUnseparated(file) ==
    LET rendered == [i \in 1..Len(file.declarations) |->
                        collect(writeDeclaration(file.declarations[i]))]
    IN IF \E i \in 1..Len(rendered) : rendered[i].threw
       THEN [threw |-> TRUE, out |-> <<>>]
       ELSE [threw |-> FALSE,
             out |-> join([i \in 1..Len(rendered) |->
                             join(rendered[i].out, <<"\n">>) \o <<"\n">>], <<>>)]

declarationBlocks(file) ==
    LET rendered == [i \in 1..Len(file.declarations) |->
                        collect(writeDeclaration(file.declarations[i]))]
    IN IF \E i \in 1..Len(rendered) : rendered[i].threw
       THEN [threw |-> TRUE, out |-> <<>>]
       ELSE [threw |-> FALSE,
             out |-> join([i \in 1..Len(rendered) |->
                             <<"\n">> \o join(rendered[i].out, <<"\n">>) \o <<"\n">>], <<>>)]

writeProtoFile(file) ==
    LET declarations == declarationBlocks(file)
    IN IF declarations.threw
       THEN [threw |-> TRUE, out |-> <<>>]
       ELSE [threw |-> FALSE,
             out |-> PROTO_HEADER \o packageStatement(file) \o importStatements(file)
                       \o optionStatements(file) \o declarations.out]

(***************************************************************************)
(* The AST (ast.ts) and the bounded inputs.                                *)
(***************************************************************************)
Scalar(n) == [t |-> "scalar", name |-> n]
Ref(n) == [t |-> "ref", name |-> n]
MapOf(key, value) == [t |-> "map", k |-> key, v |-> value]

Field(n, ty, i, rep) ==
    [kind |-> "field", name |-> n, type |-> ty, index |-> i, repeated |-> rep]
Method(n, in, out, s) ==
    [kind |-> "method", name |-> n, input |-> in, returns |-> out, stream |-> s]
Service(n, ops) == [kind |-> "service", name |-> n, operations |-> ops]
Enum(n, vs, alias) == [kind |-> "enum", name |-> n, variants |-> vs, allowAlias |-> alias]
OneOf(n, ds) == [kind |-> "oneof", name |-> n, declarations |-> ds]
Message(n, ds, rs) ==
    [kind |-> "message", name |-> n, declarations |-> ds, reservations |-> rs]
Unknown == [kind |-> "extension", name |-> "X"]

NoReservations == [defined |-> FALSE, items |-> <<>>]
Reservations(rs) == [defined |-> TRUE, items |-> rs]
ResNumber(i) == [k |-> "number", n |-> i]
ResRange(a, b) == [k |-> "range", lo |-> a, hi |-> b]
ResName(n) == [k |-> "name", s |-> n]

ReservationPool == {ResNumber(5), ResRange(10, 12), ResName("a"), ResName("b")}
ReservationLists ==
    {NoReservations} \cup {Reservations(rs) : rs \in SeqsUpTo(ReservationPool, MaxReservations)}

VariantPool == {[name |-> "A", idx |-> 0], [name |-> "B", idx |-> 0], [name |-> "C", idx |-> 1]}
Enums == {Enum("E", vs, alias) : vs \in SeqsUpTo(VariantPool, MaxVariants), alias \in BOOLEAN}

MapField == Field("m", MapOf("string", Ref("Foo")), 2, FALSE)
ScalarField == Field("f", Scalar("int32"), 1, FALSE)
AliasEnum == Enum("E", <<[name |-> "A", idx |-> 0], [name |-> "B", idx |-> 0]>>, TRUE)
ReservedMessage == Message("Old", <<>>, Reservations(<<ResNumber(5), ResName("a")>>))

MessageChildren == {ScalarField, AliasEnum, OneOf("choice", <<MapField>>), ReservedMessage}
Messages ==
    {Message("Foo", ds, rs) : ds \in SeqsUpTo(MessageChildren, MaxChildren),
                              rs \in ReservationLists}

Leaves ==
    { ScalarField, MapField,
      Field("r", MapOf("string", MapOf("int32", Scalar("bool"))), 3, TRUE),
      AliasEnum, Enum("Empty", <<>>, TRUE), Enum("P", <<[name |-> "A", idx |-> 0]>>, FALSE),
      Service("Svc", <<>>), Message("Nil", <<>>, NoReservations),
      Message("Nul", <<>>, Reservations(<<>>)), ReservedMessage, Unknown }
      \cup {Method("M", Ref("X"), Ref("Y"), s) : s \in 0..3}
      \cup {Service("Svc", <<Method("M", Ref("X"), Ref("Y"), s),
                              Method("N", Ref("Y"), Ref("X"), 0)>>) : s \in {0, 3}}

Wrappings(c) ==
    LET children == {<<c>>, <<ScalarField, c>>, <<c, ScalarField>>}
    IN {Message("Outer", ds, rs) :
            ds \in children,
            rs \in {NoReservations, Reservations(<<ResName("b"), ResRange(1, 3)>>)}}
       \cup {OneOf("choice", ds) : ds \in children}

RECURSIVE Decls(_)
Decls(d) ==
    IF d = 0 THEN Leaves
    ELSE Leaves \cup UNION {Wrappings(c) : c \in Decls(d - 1)}

Packages ==
    {[defined |-> FALSE, name |-> ""], [defined |-> TRUE, name |-> ""],
     [defined |-> TRUE, name |-> "pkg"]}
ImportPaths == {"a.proto", "b.proto"}
OptionEntries ==
    {[name |-> "java_package", value |-> [type |-> "string", s |-> "x"]],
     [name |-> "level", value |-> [type |-> "number", n |-> 1]],
     [name |-> "deprecated", value |-> [type |-> "boolean", b |-> TRUE]]}
\* Object.entries of an object: the keys are distinct
OptionLists ==
    {os \in SeqsUpTo(OptionEntries, MaxOptions) :
        \A i, j \in 1..Len(os) : i # j => os[i].name # os[j].name}
TopDecls ==
    {Message("Foo", <<ScalarField>>, Reservations(<<ResNumber(5)>>)), AliasEnum, ScalarField,
     Unknown,
     Message("Bar", <<OneOf("choice", <<Unknown>>)>>, NoReservations)}
Files ==
    [package : Packages, imports : SeqsUpTo(ImportPaths, MaxImports),
     options : OptionLists, declarations : SeqsUpTo(TopDecls, MaxDecls)]

(***************************************************************************)
(* The state machine: an input is drawn, then a function is applied to it. *)
(***************************************************************************)
NoResult == [threw |-> FALSE, out |-> <<>>]

Start(inputs) == arg \in inputs /\ ret = NoResult /\ called = ""

Call(name, result) ==
    /\ called = ""
    /\ called' = name
    /\ ret' = result
    /\ UNCHANGED arg

WriteProtoFile == Call("writeProtoFile", writeProtoFile(arg))
WriteDeclaration == Call("writeDeclaration", collect(writeDeclaration(arg)))
WriteMessage == Call("writeMessage", collect(writeMessage(arg)))
WriteReservations == Call("writeReservations", collect(writeReservations(arg)))
WriteEnum == Call("writeEnum", collect(writeEnum(arg)))

Init == Start(Files)
Next == WriteProtoFile
Spec == Init /\ [][Next]_vars

InitDecl == Start(Decls(MaxDepth))
NextDecl == WriteDeclaration
SpecDecl == InitDecl /\ [][NextDecl]_vars

InitMessage == Start(Messages)
NextMessage == WriteMessage \/ WriteReservations
SpecMessage == InitMessage /\ [][NextMessage]_vars

InitEnum == Start(Enums)
NextEnum == WriteEnum
SpecEnum == InitEnum /\ [][NextEnum]_vars


(***************************************************************************)
(* Reading a rendered text.                                                *)
(***************************************************************************)
\* String.prototype.split("\n")
RECURSIVE SplitLines(_)
SplitLines(text) ==
    IF Len(text) = 0 THEN << <<>> >>
    ELSE IF Len(text) = 1 THEN (IF text[1] = "\n" THEN << <<>>, <<>> >> ELSE <<text>>)
    ELSE LET half == Len(text) \div 2
             left == SplitLines(SubSeq(text, 1, half))
             right == SplitLines(SubSeq(text, half + 1, Len(text)))
         IN SubSeq(left, 1, Len(left) - 1) \o <<left[Len(left)] \o right[1]>> \o Tail(right)

LeadingSpaces(line) ==
    CHOOSE k \in 0..Len(line) :
        /\ \A i \in 1..k : line[i] = " "
        /\ k = Len(line) \/ line[k + 1] # " "

Strip(line) == SubSeq(line, LeadingSpaces(line) + 1, Len(line))

FirstToken(line) == IF line = <<>> THEN "" ELSE line[1]

LastToken(line) == IF line = <<>> THEN "" ELSE line[Len(line)]

NonBlank(ls) == SelectSeq(ls, LAMBDA l : l # <<>>)

Flatten(seqs) ==
    LET acc[i \in 0..Len(seqs)] == IF i = 0 THEN <<>> ELSE acc[i - 1] \o seqs[i]
    IN acc[Len(seqs)]

HeaderLines ==
    << <<"/* Generated by Microsoft TypeSpec */">>, <<>>,
       <<"syntax", " ", "=", " ", "\"proto3\"", ";">> >>

\* 1 package, 2 import, 3 option, 4 a line of a declaration block
Section(line) ==
    CASE FirstToken(line) = "package" -> 1
      [] FirstToken(line) = "import" -> 2
      [] FirstToken(line) = "option" -> 3
      [] OTHER -> 4

Body(lines) == SubSeq(lines, Len(HeaderLines) + 1, Len(lines))
Returned == called = "writeProtoFile" /\ ~ret.threw

RECURSIVE ReachesUnknown(_)
ReachesUnknown(decl) ==
    \/ decl.kind \notin {"message", "field", "oneof", "enum", "method", "service"}
    \/ /\ decl.kind \in {"message", "oneof"}
       /\ \E i \in 1..Len(decl.declarations) : ReachesUnknown(decl.declarations[i])

(***************************************************************************)
(* C1: the text of writeProtoFile is the header, then at most one package  *)
(* statement (only if a package is present), then the import statements,   *)
(* one per import path in input order with duplicates kept, then the       *)
(* option statements, then the declaration blocks, one per top-level       *)
(* declaration in input order.                                             *)
(***************************************************************************)
C1_SectionOrder ==
    Returned =>
        LET FileLines == SplitLines(ret.out)
            stmts == NonBlank(Body(FileLines))
            packages == SelectSeq(stmts, LAMBDA l : Section(l) = 1)
            imports == SelectSeq(stmts, LAMBDA l : Section(l) = 2)
            options == SelectSeq(stmts, LAMBDA l : Section(l) = 3)
            blocks == SelectSeq(stmts, LAMBDA l : Section(l) = 4)
        IN /\ SubSeq(FileLines, 1, Len(HeaderLines)) = HeaderLines
           /\ \A i \in 1..(Len(stmts) - 1) : Section(stmts[i]) <= Section(stmts[i + 1])
           /\ Len(packages) <= 1
           /\ Len(packages) = 1 => arg.package.defined
           /\ arg.package.defined /\ arg.package.name # ""
                 => packages = << <<"package", " ", arg.package.name, ";">> >>
           /\ imports = [i \in 1..Len(arg.imports) |->
                            <<"import", " ", "\"", arg.imports[i], "\"", ";">>]
           /\ Len(options) = Len(arg.options)
           /\ blocks = Flatten([i \in 1..Len(arg.declarations) |->
                                  NonBlank(collect(writeDeclaration(arg.declarations[i])).out)])

C1_Witness ==
    /\ Returned
    /\ arg.package.defined /\ arg.package.name # ""
    /\ Len(arg.imports) = 2 /\ arg.imports[1] = arg.imports[2]
    /\ Len(arg.options) = 2
    /\ Len(arg.declarations) = 2 /\ arg.declarations[1] # arg.declarations[2]

(***************************************************************************)
(* C2: in the text of writeProtoFile exactly one blank line stands         *)
(* immediately before the first line of every top-level declaration block, *)
(* whatever the package, the imports and the options are.                  *)
(***************************************************************************)
\* the first line of a top-level block: at column 0, not a closing brace,
\* not a statement of the preamble
BlockStarts(lines) ==
    {i \in (Len(HeaderLines) + 1)..Len(lines) :
        /\ lines[i] # <<>>
        /\ Section(lines[i]) = 4
        /\ FirstToken(lines[i]) \notin {" ", "}"}}

C2_OneBlankBeforeBlock ==
    Returned =>
        LET FileLines == SplitLines(ret.out)
            starts == BlockStarts(FileLines)
        IN /\ Cardinality(starts) = Len(arg.declarations)
           /\ \A i \in starts : FileLines[i - 1] = <<>> /\ FileLines[i - 2] # <<>>

C2_Witness ==
    /\ Returned
    /\ Len(arg.declarations) = 2
    /\ ~arg.package.defined /\ Len(arg.imports) = 2 /\ Len(arg.options) = 0

(***************************************************************************)
(* C6: a declaration of an unrecognized kind that reaches                  *)
(* writeDeclaration, at top level or nested in a message or oneof, makes   *)
(* writeProtoFile throw: no string is returned, not even a partial one.    *)
(***************************************************************************)
C6_UnknownKindThrows ==
    called = "writeProtoFile"
        => (ret.threw <=> \E i \in 1..Len(arg.declarations) :
                              ReachesUnknown(arg.declarations[i]))
           /\ (ret.threw => ret.out = <<>>)

C6_Witness ==
    /\ called = "writeProtoFile"
    /\ ret.threw
    /\ Len(arg.declarations) = 2
    /\ ~ReachesUnknown(arg.declarations[1])
    /\ arg.declarations[2].kind = "message"

(***************************************************************************)
(* C10: every statement line of the preamble of the text of                *)
(* writeProtoFile (package, import, option) ends with a semicolon; in      *)
(* particular every file-level option is one complete statement.           *)
(***************************************************************************)
C10_StatementsEndWithSemicolon ==
    Returned =>
        LET stmts == NonBlank(Body(SplitLines(ret.out)))
        IN \A i \in 1..Len(stmts) :
              Section(stmts[i]) \in {1, 2, 3} => LastToken(stmts[i]) = ";"


(***************************************************************************)
(* C3: writeMessage yields the single line `message <Name> {}` exactly     *)
(* when the message has no nested declaration and no reservation (absent   *)
(* or empty list); otherwise it yields the opening line, the reservation   *)
(* lines, the lines of each nested declaration in input order and the      *)
(* closing line, every non-blank line between the braces two spaces        *)
(* deeper; a message with exactly one field is a three-line block.         *)
(***************************************************************************)
Unindent(ls) ==
    [i \in 1..Len(ls) |-> IF ls[i] = <<>> THEN ls[i] ELSE SubSeq(ls[i], 3, Len(ls[i]))]

C3_MessageForm ==
    called = "writeMessage" =>
        LET head == <<"message", " ", arg.name, " ", "{">>
            empty == /\ Len(arg.declarations) = 0
                     /\ ~arg.reservations.defined \/ Len(arg.reservations.items) = 0
            inner == SubSeq(ret.out, 2, Len(ret.out) - 1)
            nested == Flatten([i \in 1..Len(arg.declarations) |->
                                  collect(writeDeclaration(arg.declarations[i])).out])
        IN /\ ~ret.threw
           /\ (ret.out = <<head \o <<"}">> >>) <=> empty
           /\ ~empty =>
                /\ Len(ret.out) >= 3
                /\ ret.out[1] = head
                /\ ret.out[Len(ret.out)] = <<"}">>
                /\ \A i \in 1..Len(inner) :
                      inner[i] # <<>> => SubSeq(inner[i], 1, 2) = <<" ", " ">>
                /\ Unindent(inner) = collect(writeReservations(arg)).out \o nested
           /\ (Len(arg.declarations) = 1 /\ arg.declarations[1].kind = "field"
               /\ Len(collect(writeReservations(arg)).out) = 0)
                  => ret.out = <<head, <<" ", " ">> \o writeField(arg.declarations[1]), <<"}">> >>

C3_Witness ==
    /\ called = "writeMessage"
    /\ Len(arg.declarations) = 0
    /\ arg.reservations.defined /\ Len(arg.reservations.items) = 1
    /\ Len(ret.out) = 4

(***************************************************************************)
(* C4: writeReservations yields at most one `reserved` line for the        *)
(* numbers (`N` or `N to M`, comma-separated) then at most one for the     *)
(* names (quoted), each only if its bucket is non-empty, the numbers line  *)
(* first whatever the interleaving of the input, the entries of a line in  *)
(* their relative input order, and one blank line after them exactly when  *)
(* there is at least one reservation.                                      *)
(***************************************************************************)
Listed(entries) ==
    LET acc[i \in 0..Len(entries)] ==
            IF i = 0 THEN <<"reserved", " ">>
            ELSE IF i = 1 THEN acc[0] \o entries[1]
            ELSE acc[i - 1] \o <<",", " ">> \o entries[i]
    IN acc[Len(entries)] \o <<";">>

C4_ReservationLines ==
    called = "writeReservations" =>
        LET items == IF arg.reservations.defined THEN arg.reservations.items ELSE <<>>
            numbers == SelectSeq(items, LAMBDA v : v.k \in {"number", "range"})
            names == SelectSeq(items, LAMBDA v : v.k = "name")
            numberText == [i \in 1..Len(numbers) |->
                             IF numbers[i].k = "range"
                             THEN <<ToString(numbers[i].lo), " ", "to", " ",
                                    ToString(numbers[i].hi)>>
                             ELSE <<ToString(numbers[i].n)>>]
            nameText == [i \in 1..Len(names) |-> <<"\"", names[i].s, "\"">>]
            numberLine == IF Len(numbers) > 0 THEN <<Listed(numberText)>> ELSE <<>>
            nameLine == IF Len(names) > 0 THEN <<Listed(nameText)>> ELSE <<>>
            blank == IF Len(items) > 0 THEN << <<>> >> ELSE <<>>
        IN ~ret.threw /\ ret.out = numberLine \o nameLine \o blank

C4_Witness ==
    /\ called = "writeReservations"
    /\ arg.reservations.defined
    /\ arg.reservations.items = <<ResName("b"), ResNumber(5), ResName("a")>>
    /\ Len(ret.out) = 3

(***************************************************************************)
(* C5 as stated: a map field in a oneof in a message is rendered on a      *)
(* line that begins with exactly six spaces.                               *)
(***************************************************************************)
MapFieldsInOneOf ==
    IF called = "writeDeclaration" /\ arg.kind = "message"
    THEN UNION {{arg.declarations[i].declarations[j] :
                    j \in {j \in 1..Len(arg.declarations[i].declarations) :
                             /\ arg.declarations[i].declarations[j].kind = "field"
                             /\ arg.declarations[i].declarations[j].type.t = "map"}} :
                i \in {i \in 1..Len(arg.declarations) : arg.declarations[i].kind = "oneof"}}
    ELSE {}

FieldIndentIs(n) ==
    \A f \in MapFieldsInOneOf :
        /\ \E i \in 1..Len(ret.out) : Strip(ret.out[i]) = writeField(f)
        /\ \A i \in 1..Len(ret.out) :
              Strip(ret.out[i]) = writeField(f) => LeadingSpaces(ret.out[i]) = n

C5_SixSpaces == FieldIndentIs(6)

(***************************************************************************)
(* C5 as amended: a map field in a oneof in a message is rendered on a     *)
(* line that begins with exactly four spaces: the field is two nesting     *)
(* levels below the message, each level indenting by two.                  *)
(***************************************************************************)
C5_FourSpaces == FieldIndentIs(4)

C5_Witness ==
    /\ called = "writeDeclaration"
    /\ MapFieldsInOneOf # {}
    /\ \E i \in 1..Len(ret.out) : Strip(ret.out[i]) = writeField(MapField)

(***************************************************************************)
(* C7: for a declaration of each of the six kinds, with nested content,    *)
(* writeDeclaration yields at least one line and the lines are             *)
(* brace-balanced: scanning in order the closing braces never outnumber    *)
(* the opening ones, and the two counts are equal at the end.              *)
(***************************************************************************)
Count(line, k, token) == Cardinality({j \in 1..k : line[j] = token})

Net(line, k) == Count(line, k, "{") - Count(line, k, "}")

OpenBefore(ls) ==
    [i \in 0..Len(ls) |->
        LET sums[n \in 0..i] == IF n = 0 THEN 0 ELSE sums[n - 1] + Net(ls[n], Len(ls[n]))
        IN sums[i]]

C7_BraceBalanced ==
    called = "writeDeclaration" /\ ~ReachesUnknown(arg) =>
        LET open == OpenBefore(ret.out)
        IN /\ ~ret.threw
           /\ Len(ret.out) >= 1
           /\ \A i \in 1..Len(ret.out) :
                 \A k \in 1..Len(ret.out[i]) : open[i - 1] + Net(ret.out[i], k) >= 0
           /\ open[Len(ret.out)] = 0

C7_Witness ==
    /\ called = "writeDeclaration"
    /\ arg.kind = "oneof"
    /\ Len(arg.declarations) = 2
    /\ arg.declarations[1].kind = "message"
    /\ Len(arg.declarations[1].declarations) >= 1
    /\ arg.declarations[1].declarations[1].kind = "service"
    /\ ~ret.threw

(***************************************************************************)
(* C8: for an enum with allow-alias, writeEnum yields                      *)
(* `option allow_alias = true;` as the first line after the opening brace, *)
(* two spaces deeper than the braces; with no variant the next line is the *)
(* closing brace, with variants exactly one blank line precedes the first  *)
(* variant; without allow-alias there is neither the option line nor a     *)
(* blank line; the variants follow as `<Name> = <Index>;` in declared      *)
(* order, duplicate indices kept.                                          *)
(***************************************************************************)
C8_EnumForm ==
    called = "writeEnum" =>
        LET n == Len(arg.variants)
            option == <<"option", " ", "allow_alias", " ", "=", " ", "true", ";">>
            first == IF ~arg.allowAlias THEN 2 ELSE IF n = 0 THEN 3 ELSE 4
            blanks == {i \in 1..Len(ret.out) : ret.out[i] = <<>>}
        IN /\ ~ret.threw
           /\ ret.out[1] = <<"enum", " ", arg.name, " ", "{">>
           /\ LeadingSpaces(ret.out[1]) = 0
           /\ ret.out[Len(ret.out)] = <<"}">>
           /\ Len(ret.out) = first + n
           /\ arg.allowAlias =>
                 /\ Strip(ret.out[2]) = option
                 /\ LeadingSpaces(ret.out[2]) = 2
                 /\ blanks = IF n = 0 THEN {} ELSE {3}
           /\ ~arg.allowAlias =>
                 /\ blanks = {}
                 /\ \A i \in 1..Len(ret.out) : Strip(ret.out[i]) # option
           /\ \A i \in 1..n :
                 Strip(ret.out[first + i - 1])
                    = <<arg.variants[i].name, " ", "=", " ", ToString(arg.variants[i].idx), ";">>

C8_Witness ==
    /\ called = "writeEnum"
    /\ arg.allowAlias
    /\ Len(arg.variants) = 2
    /\ arg.variants[1].idx = arg.variants[2].idx
    /\ ret.out[3] = <<>>

====
